---- MODULE Spec2Model ----
(***************************************************************************)
(* Model of the geocoding agent of grantbabb/extreme-event:                *)
(* src/agent/lambda_function.py (request dispatcher, geocoding adapters,   *)
(* fallback router, distance calculation) with the Neptune helpers of      *)
(* src/agent/neptune_connection.py seen from the dispatcher, and the       *)
(* NeptuneConnection class of that file.                                   *)
(*                                                                         *)
(* Specifications: Spec (one call at a time), Concurrent (two invocations  *)
(* of lambda_handler interleaved), Connection (sequences of method calls   *)
(* on a NeptuneConnection).                                                *)
(*                                                                         *)
(* Conventions.                                                            *)
(*  - A Python str the code looks into (a city name, a query, a parameter *)
(*    value) is a sequence of tokens: " " is a whitespace character, every *)
(*    other token stands for a run of non-whitespace characters.  A str    *)
(*    the code only passes on is a TLA+ string.                            *)
(*  - A Python dict is a function from key strings to values; a missing    *)
(*    key is a key outside its DOMAIN.                                     *)
(*  - The result of a Python call is a record with kind "return" (and the  *)
(*    returned value) or kind "raise" (and the exception's class), plus    *)
(*    the adapter invocations (calls) and HTTP requests (http) it made.    *)
(*  - A float number of degrees is an integer number of 10^-7 degrees.     *)
(***************************************************************************)
EXTENDS Integers, Sequences, FiniteSets, TLC

VARIABLES
    GEOCODING_PROVIDER,   \* lambda_function.py:27, read once at import
    OPENCAGE_API_KEY,     \* lambda_function.py:25
    GOOGLE_MAPS_API_KEY,  \* lambda_function.py:26
    pc,                   \* "idle": no call in progress; "done": a call has ended
    op,                   \* the entry point that was called
    arg,                  \* its argument (city_name, or the event)
    net,                  \* what each geocoding provider does during the call
    graph,                \* what the Neptune endpoint does during the call
    outcome,              \* how the call ended: returned value or raised exception
    calls,                \* adapter, graph helper and method invocations of the call, in order
    http,                 \* HTTP requests issued during the call, in order
    NEPTUNE_ENDPOINT,     \* neptune_connection.py:15, read once at import
    NEPTUNE_USE_IAM,      \* neptune_connection.py:17
    conn,                 \* a NeptuneConnection object: _session, _auth, _base_url
    sessions              \* the requests.Session objects created so far: open or closed

vars == <<GEOCODING_PROVIDER, OPENCAGE_API_KEY, GOOGLE_MAPS_API_KEY,
          pc, op, arg, net, graph, outcome, calls, http,
          NEPTUNE_ENDPOINT, NEPTUNE_USE_IAM, conn, sessions>>

\* the configuration of neptune_connection.py and the objects of its class
Neptune == <<NEPTUNE_ENDPOINT, NEPTUNE_USE_IAM, conn, sessions>>

-----------------------------------------------------------------------------
(* Bounds of the model *)

\* longest city_name handed to get_coordinates_with_fallback
MaxLen == 2

-----------------------------------------------------------------------------
(* Python values *)

\* None where a str is expected (params.get('state') of a missing parameter)
None == <<"None">>

\* None where a dict is expected (an adapter's "provider unusable" return)
NoneDict == [isNone |-> TRUE]

\* bool(s) of an Optional[str]
Truthy(s) == s # None /\ Len(s) > 0

\* k in d
Has(d, k) == k \in DOMAIN d

\* d.get(k, default)
Get(d, k, default) == IF k \in DOMAIN d THEN d[k] ELSE default

\* d[k] = v on a dict: the key is added or its value replaced
SetItem(d, k, v) == [x \in DOMAIN d \cup {k} |-> IF x = k THEN v ELSE d[x]]

Space == " "

RECURSIVE lstrip(_)
lstrip(s) == IF s # <<>> /\ Head(s) = Space THEN lstrip(Tail(s)) ELSE s

RECURSIVE rstrip(_)
rstrip(s) ==
    IF s # <<>> /\ s[Len(s)] = Space THEN rstrip(SubSeq(s, 1, Len(s) - 1)) ELSE s

\* str.strip()
strip(s) == rstrip(lstrip(s))

\* ", ".join(parts)
RECURSIVE join(_)
join(parts) ==
    IF parts = <<>> THEN <<>>
    ELSE IF Len(parts) = 1 THEN parts[1]
    ELSE parts[1] \o <<",", " ">> \o join(Tail(parts))

Return(v, c, h) == [kind |-> "return", value |-> v, calls |-> c, http |-> h]
Raise(e, c, h) == [kind |-> "raise", exc |-> e, calls |-> c, http |-> h]

-----------------------------------------------------------------------------
(* The geocoding providers (external HTTP services) *)

ProviderNames == <<"opencage", "google", "nominatim">>
Providers == {"opencage", "google", "nominatim"}

\* the places a provider may know when the fallback router asks it
Places == {"London", "Paris"}

\* all the places of the model: Westminster lies a metre from London's point,
\* Antipode is the point of the South Pacific opposite Rheinfelden
Gazetteer == Places \cup {"Westminster", "Rheinfelden", "Antipode"}

\* their coordinates in 10^-7 degrees
PlaceLat(p) ==
    CASE p = "London" -> 515074000
      [] p = "Paris" -> 488566000
      [] p = "Westminster" -> 515074100
      [] p = "Rheinfelden" -> 474870000
      [] p = "Antipode" -> -474870000

PlaceLon(p) ==
    CASE p = "London" -> -1278000
      [] p = "Paris" -> 23522000
      [] p = "Westminster" -> -1278000
      [] p = "Rheinfelden" -> 79665000
      [] p = "Antipode" -> -1720335000

\* What one provider does during a call: it is unreachable ("down": connection
\* error), does not answer within the 10 s of timeout=10 ("timeout"), answers
\* with an HTTP error status ("http_error"), answers something that is not the
\* JSON the adapter expects ("garbled"), or answers from the set of places it
\* knows ("ok").
Behaviours ==
    {[status |-> "down", knows |-> {}], [status |-> "garbled", knows |-> {}]}
        \cup {[status |-> "ok", knows |-> K] : K \in SUBSET Places}

Worlds == [Providers -> Behaviours]

\* the first place named in a query that the provider knows, if any
RECURSIVE Lookup(_, _)
Lookup(query, knows) ==
    IF query = <<>> THEN {}
    ELSE IF Head(query) \in knows THEN {Head(query)}
    ELSE Lookup(Tail(query), knows)

\* requests.get(url, params=..., timeout=10) followed by raise_for_status()
\* and response.json(): the parsed body, or the exception raised
requests_get(provider, query, w) ==
    IF w[provider].status \in {"down", "timeout", "http_error"} THEN
        \* ConnectionError, Timeout and HTTPError are RequestExceptions
        [kind |-> "raise", exc |-> "RequestException"]
    ELSE IF w[provider].status = "garbled" THEN [kind |-> "raise", exc |-> "Exception"]
    ELSE [kind |-> "return", found |-> Lookup(query, w[provider].knows)]

\* a point of the open sea lies in no country
HasCountry(p) == p # "Antipode"

CountryOf(p) ==
    CASE p \in {"London", "Westminster"} -> "United Kingdom"
      [] p = "Paris" -> "France"
      [] p = "Rheinfelden" -> "Switzerland"

CountryCodeOf(p) ==
    CASE p \in {"London", "Westminster"} -> "gb"
      [] p = "Paris" -> "fr"
      [] p = "Rheinfelden" -> "ch"

\* str.upper() of a country code
upper(s) ==
    CASE s = "gb" -> "GB"
      [] s = "fr" -> "FR"
      [] s = "ch" -> "CH"
      [] OTHER -> s

\* float(text) of the decimal text of a number
float(text) == text.decimal

\* JSON body of the OpenCage service for a query that found the places `found`
opencage_body(found) ==
    [results |->
        IF found = {} THEN <<>>
        ELSE LET p == CHOOSE x \in found : TRUE
             IN  <<[geometry |-> [lat |-> PlaceLat(p), lng |-> PlaceLon(p)],
                    components |-> IF HasCountry(p)
                                   THEN [country |-> CountryOf(p),
                                         country_code |-> CountryCodeOf(p)]
                                   ELSE [body_of_water |-> p],
                    formatted |-> p,
                    confidence |-> 9]>>]

\* JSON body of the Google Maps service
google_body(found) ==
    IF found = {} THEN [status |-> "ZERO_RESULTS", results |-> <<>>]
    ELSE LET p == CHOOSE x \in found : TRUE
         IN  [status |-> "OK",
              results |->
                <<[geometry |-> [location |-> [lat |-> PlaceLat(p), lng |-> PlaceLon(p)],
                                 location_type |-> "APPROXIMATE"],
                   formatted_address |-> p,
                   place_id |-> p,
                   address_components |->
                       IF HasCountry(p)
                       THEN <<[types |-> <<"country", "political">>,
                               long_name |-> CountryOf(p)]>>
                       ELSE <<>>]>>]

\* JSON body of the Nominatim service: a list, coordinates as decimal text
nominatim_body(found) ==
    IF found = {} THEN <<>>
    ELSE LET p == CHOOSE x \in found : TRUE
         IN  <<[lat |-> [decimal |-> PlaceLat(p)],
                lon |-> [decimal |-> PlaceLon(p)],
                display_name |-> p,
                address |-> IF HasCountry(p)
                            THEN [country |-> CountryOf(p),
                                  country_code |-> CountryCodeOf(p)]
                            ELSE [body_of_water |-> p],
                osm_type |-> "relation"]>>

-----------------------------------------------------------------------------------------------------------------------------------------------------
(* Provider adapters.  Each returns [value, http]: the adapter's return    *)
(* value and the HTTP requests it issued.  No adapter raises: both except  *)
(* clauses return None.                                                    *)

HttpRequest(provider, query) == [provider |-> provider, q |-> query]

\* opencage_success taking the latitude from 'lng' and the longitude from 'lat'
opencage_success_swapped(city_name, result) ==
    [success |-> TRUE,
     city |-> city_name,
     latitude |-> result.geometry.lng,
     longitude |-> result.geometry.lat,
     formatted_address |-> result.formatted,
     country |-> Get(result.components, "country", "Unknown"),
     country_code |-> upper(Get(result.components, "country_code", "")),
     state |-> Get(result.components, "state", ""),
     confidence |-> Get(result, "confidence", 0),
     timezone |-> "",
     source |-> "OpenCage Geocoding API",
     bounds |-> Get(result, "bounds", <<>>)]

\* lines 144-168: the record built from the first result
opencage_success(city_name, result) ==
    [success |-> TRUE,
     city |-> city_name,
     latitude |-> result.geometry.lat,
     longitude |-> result.geometry.lng,
     formatted_address |-> result.formatted,
     country |-> Get(result.components, "country", "Unknown"),
     country_code |-> upper(Get(result.components, "country_code", "")),
     state |-> Get(result.components, "state", ""),
     confidence |-> Get(result, "confidence", 0),
     timezone |-> "",
     source |-> "OpenCage Geocoding API",
     bounds |-> Get(result, "bounds", <<>>)]

\* lines 143-176: the parsed body turned into the adapter's record
opencage_record(city_name, data) ==
    IF Get(data, "results", <<>>) # <<>> THEN opencage_success(city_name, data.results[1])
    ELSE [success |-> FALSE,
          city |-> city_name,
          error |-> "No results found",
          source |-> "OpenCage Geocoding API"]

\* lines 128-183: the try statement, given what requests.get did
opencage_try(city_name, resp) ==
    [value |-> IF resp.kind = "raise" THEN NoneDict
               ELSE opencage_record(city_name, opencage_body(resp.found)),
     http |-> <<HttpRequest("opencage", city_name)>>]

\* geocode_opencage sending its request without looking at the key
geocode_opencage_without_key_test(city_name, w) ==
    opencage_try(city_name, requests_get("opencage", city_name, w))

geocode_opencage(city_name, w) ==
    IF ~Truthy(OPENCAGE_API_KEY) THEN [value |-> NoneDict, http |-> <<>>]
    ELSE opencage_try(city_name, requests_get("opencage", city_name, w))

\* components[comp['types'][0]] = comp['long_name'] for every component
RECURSIVE address_components(_)
address_components(comps) ==
    IF comps = <<>> THEN <<>>
    ELSE IF comps[Len(comps)].types # <<>> THEN
        SetItem(address_components(SubSeq(comps, 1, Len(comps) - 1)),
                comps[Len(comps)].types[1], comps[Len(comps)].long_name)
    ELSE address_components(SubSeq(comps, 1, Len(comps) - 1))

\* lines 217-231: the record built from the first result and its components
google_success(city_name, result, components) ==
    [success |-> TRUE,
     city |-> city_name,
     latitude |-> result.geometry.location.lat,
     longitude |-> result.geometry.location.lng,
     formatted_address |-> result.formatted_address,
     country |-> Get(components, "country", "Unknown"),
     country_code |-> Get(components, "country", ""),
     state |-> Get(components, "administrative_area_level_1", ""),
     place_id |-> result.place_id,
     location_type |-> result.geometry.location_type,
     source |-> "Google Maps Geocoding API",
     bounds |-> Get(result.geometry, "bounds", <<>>),
     viewport |-> Get(result.geometry, "viewport", <<>>)]

\* lines 207-246
google_record(city_name, data) ==
    IF data.status = "OK" /\ Get(data, "results", <<>>) # <<>> THEN
        google_success(city_name, data.results[1],
                       address_components(Get(data.results[1], "address_components", <<>>)))
    ELSE [success |-> FALSE,
          city |-> city_name,
          error |-> <<"Google API status: ", data.status>>,
          source |-> "Google Maps Geocoding API"]

\* lines 195-253
google_try(city_name, resp) ==
    [value |-> IF resp.kind = "raise" THEN NoneDict
               ELSE google_record(city_name, google_body(resp.found)),
     http |-> <<HttpRequest("google", city_name)>>]

geocode_google(city_name, w) ==
    IF ~Truthy(GOOGLE_MAPS_API_KEY) THEN [value |-> NoneDict, http |-> <<>>]
    ELSE google_try(city_name, requests_get("google", city_name, w))

\* lines 279-303
nominatim_success(city_name, result, address) ==
    [success |-> TRUE,
     city |-> city_name,
     latitude |-> float(result.lat),
     longitude |-> float(result.lon),
     formatted_address |-> result.display_name,
     country |-> Get(address, "country", "Unknown"),
     country_code |-> upper(Get(address, "country_code", "")),
     state |-> Get(address, "state", ""),
     importance |-> Get(result, "importance", 0),
     source |-> "Nominatim (OpenStreetMap)",
     osm_type |-> Get(result, "osm_type", ""),
     osm_id |-> Get(result, "osm_id", ""),
     place_rank |-> Get(result, "place_rank", 0)]

\* lines 278-311
nominatim_record(city_name, data) ==
    IF data # <<>> THEN nominatim_success(city_name, data[1], Get(data[1], "address", <<>>))
    ELSE [success |-> FALSE,
          city |-> city_name,
          error |-> "No results found",
          source |-> "Nominatim (OpenStreetMap)"]

\* nominatim_try reporting a failed request as a search without results
nominatim_try_failure_as_no_results(city_name, resp) ==
    [value |-> IF resp.kind = "raise" THEN nominatim_record(city_name, <<>>)
               ELSE nominatim_record(city_name, nominatim_body(resp.found)),
     http |-> <<HttpRequest("nominatim", city_name)>>]

\* lines 261-318
nominatim_try(city_name, resp) ==
    [value |-> IF resp.kind = "raise" THEN NoneDict
               ELSE nominatim_record(city_name, nominatim_body(resp.found)),
     http |-> <<HttpRequest("nominatim", city_name)>>]

geocode_nominatim(city_name, w) ==
    nominatim_try(city_name, requests_get("nominatim", city_name, w))

-----
(* Coordinate scaling *)

\* units of the model's degree values per degree
UnitsPerDegree == 10 * 1000000

Scale == 1000000

\* round(n / d) as Python 3 rounds: to the nearest integer, ties to even
round(n, d) ==
    LET q == n \div d
        r == n % d
    IN  IF 2 * r < d THEN q
        ELSE IF 2 * r > d THEN q + 1
        ELSE IF q % 2 = 0 THEN q ELSE q + 1

\* value * 1_000_000 is a product of floats.  Where the exact product lies
\* halfway between two integers, the float product falls above it (1), below
\* it (-1) or on it (0), as measured on the values below; elsewhere its error
\* is far smaller than the distance to the halfway point and is left out.
product_error(v) ==
    CASE v = 333229205 -> 1      \* 33.3229205 * 1e6 = 33322920.500000004
      [] v = -333229205 -> -1
      [] v = 1299998475 -> -1    \* 129.9998475 * 1e6 = 129999847.49999999
      [] OTHER -> 0

\* int(round(value * 1_000_000)): a value of v units is v / UnitsPerDegree
\* degrees, so the product is v / (UnitsPerDegree / Scale); a product off the
\* halfway point rounds as the value one unit to that side does
scale_value(v) == round(v + product_error(v), UnitsPerDegree \div Scale)

\* scale_coordinates cutting the fractional part off instead of rounding
scale_coordinates_truncating(latitude, longitude) ==
    <<IF latitude >= 0 THEN latitude \div (UnitsPerDegree \div Scale)
      ELSE -((-latitude) \div (UnitsPerDegree \div Scale)),
      IF longitude >= 0 THEN longitude \div (UnitsPerDegree \div Scale)
      ELSE -((-longitude) \div (UnitsPerDegree \div Scale))>>

\* lines 65-68
scale_coordinates(latitude, longitude) ==
    <<scale_value(latitude), scale_value(longitude)>>

-----------------------------------------------------------------------------
(* Single-provider lookup *)

AdapterCall(provider, query) == [provider |-> provider, q |-> query]

\* lines 79-84
build_query(city, state, country) ==
    join(<<city>> \o (IF Truthy(state) THEN <<state>> ELSE <<>>)
                  \o (IF Truthy(country) THEN <<country>> ELSE <<>>))

\* lines 89-94: the adapter the configuration selects
selected_provider ==
    IF GEOCODING_PROVIDER = "opencage" /\ Truthy(OPENCAGE_API_KEY) THEN "opencage"
    ELSE IF GEOCODING_PROVIDER = "google" /\ Truthy(GOOGLE_MAPS_API_KEY) THEN "google"
    ELSE "nominatim"

geocode(provider, query, w) ==
    CASE provider = "opencage" -> geocode_opencage(query, w)
      [] provider = "google" -> geocode_google(query, w)
      [] provider = "nominatim" -> geocode_nominatim(query, w)

\* add_scaled storing the scaled values under 'latitude' and 'longitude'
add_scaled_overwriting(result, scaled) ==
    SetItem(SetItem(result, "latitude", scaled[1]), "longitude", scaled[2])

\* lines 96-103
add_scaled(result, scaled) ==
    SetItem(SetItem(result, "scaled_latitude", scaled[1]), "scaled_longitude", scaled[2])

\* coordinates_of returning the adapter's record without scaled coordinates
coordinates_of_without_scaled(provider, query, r) ==
    IF r.value = NoneDict THEN
        Return([error |-> "argument of type 'NoneType' is not iterable",
                query |-> query], <<AdapterCall(provider, query)>>, r.http)
    ELSE Return(r.value, <<AdapterCall(provider, query)>>, r.http)

\* coordinates_of guarding the membership tests with 'result and', so that the
\* None of a failed adapter is returned as it is
coordinates_of_returning_none(provider, query, r) ==
    IF r.value # NoneDict /\ Has(r.value, "latitude") /\ Has(r.value, "longitude") THEN
        Return(add_scaled(r.value, scale_coordinates(r.value.latitude, r.value.longitude)),
               <<AdapterCall(provider, query)>>, r.http)
    ELSE Return(r.value, <<AdapterCall(provider, query)>>, r.http)

\* lines 96-112, given what the adapter returned
coordinates_of(provider, query, r) ==
    IF r.value = NoneDict THEN
        \* 'latitude' in None raises TypeError, caught at line 107
        Return([error |-> "argument of type 'NoneType' is not iterable",
                query |-> query], <<AdapterCall(provider, query)>>, r.http)
    ELSE IF Has(r.value, "latitude") /\ Has(r.value, "longitude") THEN
        Return(add_scaled(r.value, scale_coordinates(r.value.latitude, r.value.longitude)),
               <<AdapterCall(provider, query)>>, r.http)
    ELSE Return(r.value, <<AdapterCall(provider, query)>>, r.http)

get_coordinates_query(query, w) ==
    coordinates_of(selected_provider, query, geocode(selected_provider, query, w))

get_coordinates(city, state, country, w) ==
    get_coordinates_query(build_query(city, state, country), w)

-----------------------------------------------------------------------------
(* Fallback router *)

\* the names bound at module level in lambda_function.py
ModuleGlobals ==
    {"json", "os", "requests", "logging", "Dict", "Any", "Optional", "Tuple",
     "Decimal", "radians", "sin", "cos", "sqrt", "atan2",
     "find_nearest_vertices", "get_vertex_by_id", "find_path_between_vertices",
     "get_vertex_neighbors", "test_connection", "NeptuneConnection",
     "logger", "OPENCAGE_API_KEY", "GOOGLE_MAPS_API_KEY", "GEOCODING_PROVIDER",
     "LOG_LEVEL", "DecimalEncoder", "log", "scale_coordinates", "get_coordinates",
     "geocode_opencage", "geocode_google", "geocode_nominatim",
     "get_coordinates_with_fallback", "calculate_distance",
     "get_nearest_graph_vertices", "get_graph_vertex", "find_graph_path",
     "get_neighbors", "test_neptune_connection", "lambda_handler"}

\* the names the dict literal of lines 334-338 evaluates, by key
providers ==
    [opencage |-> "get_coordinates_opencage",
     google |-> "get_coordinates_google",
     nominatim |-> "get_coordinates_nominatim"]

\* calling the module-level function a name is bound to
CallAdapter(name, city_name, w) ==
    CASE name = "geocode_opencage" -> geocode_opencage(city_name, w)
      [] name = "geocode_google" -> geocode_google(city_name, w)
      [] name = "geocode_nominatim" -> geocode_nominatim(city_name, w)

\* if result and result.get('success')
Succeeded(result) == result # NoneDict /\ Get(result, "success", FALSE) = TRUE

\* lines 362-369
all_failed(city_name) ==
    [success |-> FALSE,
     city |-> city_name,
     error |-> "Unable to geocode city with any provider. Please check the city name and try again.",
     attempted_providers |-> ProviderNames,
     configured_provider |-> GEOCODING_PROVIDER]

\* line 358
with_note(result) ==
    SetItem(result, "note",
            <<"Fallback provider used (primary provider \"", GEOCODING_PROVIDER,
              "\" failed)">>)

\* the for loop of lines 353-359 from the i-th provider on, then lines 361-369;
\* r is what the i-th provider's function returns when it is called
RECURSIVE fallback_loop(_, _, _, _, _)
fallback_step(i, city_name, w, c, h, r) ==
    IF Succeeded(r.value) THEN Return(with_note(r.value), c, h \o r.http)
    ELSE fallback_loop(i + 1, city_name, w, c, h \o r.http)

fallback_loop(i, city_name, w, c, h) ==
    IF i > Len(ProviderNames) THEN Return(all_failed(city_name), c, h)
    ELSE IF ProviderNames[i] = GEOCODING_PROVIDER THEN
        fallback_loop(i + 1, city_name, w, c, h)
    ELSE fallback_step(i, city_name, w,
                       Append(c, AdapterCall(ProviderNames[i], city_name)), h,
                       CallAdapter(providers[ProviderNames[i]], city_name, w))

\* lines 345-350, given what the preferred provider's function returned
preferred_first(city_name, w, r) ==
    IF Succeeded(r.value) THEN
        Return(r.value, <<AdapterCall(GEOCODING_PROVIDER, city_name)>>, r.http)
    ELSE fallback_loop(1, city_name, w,
                       <<AdapterCall(GEOCODING_PROVIDER, city_name)>>, r.http)

\* get_coordinates_with_fallback with the whitespace test of line 327 left out
fallback_without_strip(city_name, w) ==
    IF ~Truthy(city_name) THEN
        Return([success |-> FALSE,
                city |-> city_name,
                error |-> "City name cannot be empty"], <<>>, <<>>)
    ELSE IF \E k \in DOMAIN providers : providers[k] \notin ModuleGlobals THEN
        Raise("NameError", <<>>, <<>>)
    ELSE IF GEOCODING_PROVIDER \in DOMAIN providers THEN
        preferred_first(city_name, w,
                        CallAdapter(providers[GEOCODING_PROVIDER], city_name, w))
    ELSE fallback_loop(1, city_name, w, <<>>, <<>>)

get_coordinates_with_fallback(city_name, w) ==
    IF ~Truthy(city_name) \/ ~Truthy(strip(city_name)) THEN
        Return([success |-> FALSE,
                city |-> city_name,
                error |-> "City name cannot be empty"], <<>>, <<>>)
    ELSE IF \E k \in DOMAIN providers : providers[k] \notin ModuleGlobals THEN
        \* the dict literal names functions the module does not define
        Raise("NameError", <<>>, <<>>)
    ELSE IF GEOCODING_PROVIDER \in DOMAIN providers THEN
        preferred_first(city_name, w,
                        CallAdapter(providers[GEOCODING_PROVIDER], city_name, w))
    ELSE fallback_loop(1, city_name, w, <<>>, <<>>)

-----------------------------------------------------------------------------
(* Distance calculation *)

\* the point of a place
Point(p) == <<PlaceLat(p), PlaceLon(p)>>

\* the two coordinate pairs are the points of places a and b, in either order
Between(lat1, lon1, lat2, lon2, a, b) ==
    {<<lat1, lon1>>, <<lat2, lon2>>} = {Point(a), Point(b)}

\* lines 405-406: for a pair of opposite points the float sum a exceeds 1, and
\* sqrt(1 - a) raises ValueError (math domain error)
sqrt_domain_error(lat1, lon1, lat2, lon2) ==
    Between(lat1, lon1, lat2, lon2, "Rheinfelden", "Antipode")

\* distance_km = R * c of lines 397-408 in units of 10^-4 km, as the float
\* arithmetic of the source gives it for the points of the model's places
R_times_c(lat1, lon1, lat2, lon2) ==
    IF lat1 = lat2 /\ lon1 = lon2 THEN 0
    ELSE CASE
         Between(lat1, lon1, lat2, lon2, "London", "Paris") -> 3435561
      [] Between(lat1, lon1, lat2, lon2, "London", "Westminster") -> 11
      [] Between(lat1, lon1, lat2, lon2, "London", "Rheinfelden") -> 7352033
      [] Between(lat1, lon1, lat2, lon2, "London", "Antipode") -> 192798835
      [] Between(lat1, lon1, lat2, lon2, "Paris", "Westminster") -> 3435570
      [] Between(lat1, lon1, lat2, lon2, "Paris", "Rheinfelden") -> 4431817
      [] Between(lat1, lon1, lat2, lon2, "Paris", "Antipode") -> 195719051
      [] Between(lat1, lon1, lat2, lon2, "Westminster", "Rheinfelden") -> 7352039
      [] Between(lat1, lon1, lat2, lon2, "Westminster", "Antipode") -> 192798829

\* distance_miles = distance_km * 0.621371 of line 409 in units of 10^-4 mile
km_times_0_621371(lat1, lon1, lat2, lon2) ==
    IF lat1 = lat2 /\ lon1 = lon2 THEN 0
    ELSE CASE
         Between(lat1, lon1, lat2, lon2, "London", "Paris") -> 2134758
      [] Between(lat1, lon1, lat2, lon2, "London", "Westminster") -> 7
      [] Between(lat1, lon1, lat2, lon2, "London", "Rheinfelden") -> 4568340
      [] Between(lat1, lon1, lat2, lon2, "London", "Antipode") -> 119799605
      [] Between(lat1, lon1, lat2, lon2, "Paris", "Westminster") -> 2134764
      [] Between(lat1, lon1, lat2, lon2, "Paris", "Rheinfelden") -> 2753803
      [] Between(lat1, lon1, lat2, lon2, "Paris", "Antipode") -> 121614142
      [] Between(lat1, lon1, lat2, lon2, "Westminster", "Rheinfelden") -> 4568344
      [] Between(lat1, lon1, lat2, lon2, "Westminster", "Antipode") -> 119799601

\* round(distance_km, 2) of line 430, in units of 0.01 km
haversine_km(lat1, lon1, lat2, lon2) == round(R_times_c(lat1, lon1, lat2, lon2), 100)

\* round(distance_miles, 2) of line 431, in units of 0.01 mile
haversine_miles(lat1, lon1, lat2, lon2) ==
    round(km_times_0_621371(lat1, lon1, lat2, lon2), 100)

\* lines 412-429: the per-city part of the result
city_part(name, coords) ==
    [name |-> name,
     latitude |-> coords.latitude,
     longitude |-> coords.longitude,
     scaled_latitude |-> coords.scaled_latitude,
     scaled_longitude |-> coords.scaled_longitude,
     country |-> Get(coords, "country", ""),
     formatted_address |-> Get(coords, "formatted_address", "")]

\* distance_result without the distance in miles
distance_result_without_miles(city1, city2, coords1, coords2) ==
    [city1 |-> city_part(city1, coords1),
     city2 |-> city_part(city2, coords2),
     distance_km |-> haversine_km(coords1.latitude, coords1.longitude,
                                  coords2.latitude, coords2.longitude)]

\* lines 411-432: the result of a completed calculation
distance_result(city1, city2, coords1, coords2) ==
    [city1 |-> city_part(city1, coords1),
     city2 |-> city_part(city2, coords2),
     distance_km |-> haversine_km(coords1.latitude, coords1.longitude,
                                  coords2.latitude, coords2.longitude),
     distance_miles |-> haversine_miles(coords1.latitude, coords1.longitude,
                                        coords2.latitude, coords2.longitude)]

\* coords[k] of a record without the key k raises KeyError
missing_key(coords, keys) == \E k \in keys : ~Has(coords, k)

\* lines 392-432: the calculation for two records that passed the 'error'
\* tests; lines 393-394 read the coordinates, line 406 takes the square
\* roots, lines 415-416 and 424-425 read the scaled coordinates
haversine(city1, city2, r1, r2) ==
    IF missing_key(r1.value, {"latitude", "longitude"})
         \/ missing_key(r2.value, {"latitude", "longitude"}) THEN
        Raise("KeyError", r1.calls \o r2.calls, r1.http \o r2.http)
    ELSE IF sqrt_domain_error(r1.value.latitude, r1.value.longitude,
                              r2.value.latitude, r2.value.longitude) THEN
        Raise("ValueError", r1.calls \o r2.calls, r1.http \o r2.http)
    ELSE IF missing_key(r1.value, {"scaled_latitude", "scaled_longitude"})
              \/ missing_key(r2.value, {"scaled_latitude", "scaled_longitude"}) THEN
        Raise("KeyError", r1.calls \o r2.calls, r1.http \o r2.http)
    ELSE Return(distance_result(city1, city2, r1.value, r2.value),
                r1.calls \o r2.calls, r1.http \o r2.http)

\* distance_of returning the first city's record when the second city failed
distance_of_first_only(city1, city2, r1, r2) ==
    IF Has(r1.value, "error") \/ Has(r2.value, "error") THEN
        Return(r1.value, r1.calls \o r2.calls, r1.http \o r2.http)
    ELSE haversine(city1, city2, r1, r2)

\* lines 387-432, given what the two get_coordinates calls returned
distance_of(city1, city2, r1, r2) ==
    IF Has(r1.value, "error") THEN Return(r1.value, r1.calls \o r2.calls, r1.http \o r2.http)
    ELSE IF Has(r2.value, "error") THEN
        Return(r2.value, r1.calls \o r2.calls, r1.http \o r2.http)
    ELSE haversine(city1, city2, r1, r2)

\* calculate_distance geocoding the second city only after the first city's
\* record passed its 'error' test
calculate_distance_stopping_early(city1, city2, state1, state2, country1, country2, w) ==
    IF Has(get_coordinates(city1, state1, country1, w).value, "error")
    THEN get_coordinates(city1, state1, country1, w)
    ELSE distance_of(city1, city2,
                     get_coordinates(city1, state1, country1, w),
                     get_coordinates(city2, state2, country2, w))

\* lines 383-432
calculate_distance(city1, city2, state1, state2, country1, country2, w) ==
    distance_of(city1, city2,
                get_coordinates(city1, state1, country1, w),
                get_coordinates(city2, state2, country2, w))

-----------------------------------------------------------------------------
(* Graph operations, as the dispatcher sees the helpers of                 *)
(* neptune_connection.py                                                   *)

\* What the Neptune endpoint does during a call: the connection (or its test
\* query) fails, the connection succeeds and the operation's query fails,
\* the query returns no row, or it returns a row.
GraphBehaviours == {"connect_fail", "query_fail", "empty", "rows"}

Row == [vertex_id |-> "v1", vertex_labels |-> <<"Intersection">>]

\* a call of a helper of neptune_connection.py, which opens a connection to
\* the Neptune endpoint
GraphCall(helper) == [provider |-> "neptune", q |-> helper]

\* unscale keeping five decimals of the degree value
unscale_to_five_decimals(scaled) ==
    (scaled \div 10) * 10 * (UnitsPerDegree \div Scale)

\* neptune_connection.py lines 210-211: scaled / 1_000_000 degrees, in the
\* model's units
unscale(scaled) == scaled * (UnitsPerDegree \div Scale)

find_nearest_vertices(scaled_lat, scaled_lon, limit, g) ==
    IF g = "connect_fail" THEN
        Raise("ConnectionError", <<GraphCall("find_nearest_vertices")>>, <<>>)
    ELSE IF g = "query_fail" THEN
        Raise("RequestException", <<GraphCall("find_nearest_vertices")>>, <<>>)
    ELSE IF g = "empty" THEN Return(<<>>, <<GraphCall("find_nearest_vertices")>>, <<>>)
    ELSE Return(<<[vertex_id |-> Row.vertex_id,
                   vertex_labels |-> Row.vertex_labels,
                   vertex_label |-> Row.vertex_labels[1],
                   scaled_latitude |-> scaled_lat,
                   scaled_longitude |-> scaled_lon,
                   manhattan_distance |-> 0,
                   latitude |-> unscale(scaled_lat),
                   longitude |-> unscale(scaled_lon)]>>,
                <<GraphCall("find_nearest_vertices")>>, <<>>)

get_vertex_by_id(vertex_id, g) ==
    IF g = "connect_fail" THEN
        Raise("ConnectionError", <<GraphCall("get_vertex_by_id")>>, <<>>)
    ELSE IF g \in {"query_fail", "empty"} THEN
        Return(NoneDict, <<GraphCall("get_vertex_by_id")>>, <<>>)
    ELSE Return([vertex_id |-> Row.vertex_id,
                 vertex_labels |-> Row.vertex_labels,
                 vertex_label |-> Row.vertex_labels[1],
                 properties |-> <<>>], <<GraphCall("get_vertex_by_id")>>, <<>>)

find_path_between_vertices(start_id, end_id, max_hops, g) ==
    IF g = "connect_fail" THEN
        Raise("ConnectionError", <<GraphCall("find_path_between_vertices")>>, <<>>)
    ELSE IF g \in {"query_fail", "empty"} THEN
        Return(NoneDict, <<GraphCall("find_path_between_vertices")>>, <<>>)
    ELSE Return([nodes |-> <<Row>>,
                 relationships |-> <<>>,
                 path_length |-> 0,
                 start_id |-> start_id,
                 end_id |-> end_id], <<GraphCall("find_path_between_vertices")>>, <<>>)

get_vertex_neighbors(vertex_id, relationship_type, direction, limit, g) ==
    IF g = "connect_fail" THEN
        Raise("ConnectionError", <<GraphCall("get_vertex_neighbors")>>, <<>>)
    ELSE IF g = "query_fail" THEN
        Raise("RequestException", <<GraphCall("get_vertex_neighbors")>>, <<>>)
    ELSE IF g = "empty" THEN Return(<<>>, <<GraphCall("get_vertex_neighbors")>>, <<>>)
    ELSE Return(<<[vertex_id |-> Row.vertex_id,
                   vertex_labels |-> Row.vertex_labels,
                   vertex_label |-> Row.vertex_labels[1],
                   relationship_type |-> "ROAD"]>>,
                <<GraphCall("get_vertex_neighbors")>>, <<>>)

test_connection(g) ==
    IF g \in {"connect_fail", "query_fail"} THEN
        Return([status |-> "failed", error |-> "ConnectionError", endpoint |-> ""],
               <<GraphCall("test_connection")>>, <<>>)
    ELSE Return([status |-> "connected",
                 query_language |-> "OpenCypher",
                 vertex_count |-> IF g = "rows" THEN 1 ELSE 0],
                <<GraphCall("test_connection")>>, <<>>)

get_nearest_graph_vertices(city, state, country, limit, g) ==
    LET r == find_nearest_vertices(45520247, -122674194, 2, g) IN
    IF r.kind = "return" THEN
        Return([nearest_vertices |-> r.value, count |-> Len(r.value)], r.calls, <<>>)
    ELSE IF "coords" \in ModuleGlobals THEN
        Return([error |-> <<"Failed to query graph database: ", r.exc>>,
                query_location |-> [city |-> city]], r.calls, <<>>)
    ELSE
        \* the except clause reads coords, which no statement binds
        Raise("NameError", r.calls, <<>>)

get_graph_vertex(vertex_id, g) ==
    LET r == get_vertex_by_id(vertex_id, g) IN
    IF r.kind = "raise" THEN
        Return([error |-> <<"Failed to retrieve vertex: ", r.exc>>], r.calls, <<>>)
    ELSE IF r.value = NoneDict THEN
        Return([error |-> <<"Vertex not found: ", vertex_id>>], r.calls, <<>>)
    ELSE Return(r.value, r.calls, <<>>)

find_graph_path(start_vertex_id, end_vertex_id, max_hops, g) ==
    LET r == find_path_between_vertices(start_vertex_id, end_vertex_id, max_hops, g) IN
    IF r.kind = "raise" THEN
        Return([error |-> <<"Failed to find path: ", r.exc>>], r.calls, <<>>)
    ELSE IF r.value = NoneDict THEN
        Return([error |-> <<"No path found between ", start_vertex_id, end_vertex_id>>,
                start_vertex_id |-> start_vertex_id,
                end_vertex_id |-> end_vertex_id,
                max_hops |-> max_hops], r.calls, <<>>)
    ELSE Return(r.value, r.calls, <<>>)

get_neighbors(vertex_id, relationship_type, direction, limit, g) ==
    LET r == get_vertex_neighbors(vertex_id, relationship_type, direction, limit, g) IN
    IF r.kind = "raise" THEN
        Return([error |-> <<"Failed to get neighbors: ", r.exc>>], r.calls, <<>>)
    ELSE Return([vertex_id |-> vertex_id,
                 relationship_type |-> relationship_type,
                 direction |-> direction,
                 neighbors |-> r.value,
                 count |-> Len(r.value)], r.calls, <<>>)

test_neptune_connection(g) == test_connection(g)

-----------------------------------------------------------------------------
(* Request dispatcher *)

NumeralValue == ("1" :> 1) @@ ("2" :> 2) @@ ("3" :> 3) @@ ("5" :> 5) @@ ("10" :> 10)

\* int(params.get(name, default)): the number, or ValueError for a text
\* that is not a numeral
int_param(params, name, default) ==
    IF ~Has(params, name) THEN [ok |-> TRUE, value |-> default]
    ELSE LET text == strip(params[name]) IN
         IF Len(text) = 1 /\ text[1] \in DOMAIN NumeralValue
         THEN [ok |-> TRUE, value |-> NumeralValue[text[1]]]
         ELSE [ok |-> FALSE, value |-> 0]

\* {p['name']: p['value'] for p in parameters}: a later entry replaces an
\* earlier one of the same name
RECURSIVE dict_of(_)
dict_of(parameters) ==
    IF parameters = <<>> THEN <<>>
    ELSE LET p == parameters[Len(parameters)]
         IN  SetItem(dict_of(SubSeq(parameters, 1, Len(parameters) - 1)),
                     p.name, p.value)

\* json.dumps(result)
json_dumps(result) == [json |-> result]

\* the action paths the if/elif chain of lines 576-616 compares api_path with
KnownPaths ==
    {"/coordinates", "/distance", "/nearest-vertices", "/vertex", "/path",
     "/neighbors", "/test-connection"}

\* branch taking a path with a trailing slash for the path without it
branch_ignoring_trailing_slash(api_path) ==
    IF api_path \in KnownPaths THEN api_path
    ELSE IF api_path = "/coordinates/" THEN "/coordinates"
    ELSE "else"

\* the branch of the chain that api_path takes: the one whose string equals
\* it, or the final else
branch(api_path) == IF api_path \in KnownPaths THEN api_path ELSE "else"

\* the if/elif chain of lines 576-616
route(api_path, params, w, g) ==
    CASE branch(api_path) = "/coordinates" ->
           get_coordinates(Get(params, "city", <<>>), Get(params, "state", None),
                           Get(params, "country", None), w)
      [] branch(api_path) = "/distance" ->
           calculate_distance(Get(params, "city1", <<>>), Get(params, "city2", <<>>),
                              Get(params, "state1", None), Get(params, "state2", None),
                              Get(params, "country1", None), Get(params, "country2", None),
                              w)
      [] branch(api_path) = "/nearest-vertices" ->
           LET limit == int_param(params, "limit", 2) IN
           IF ~limit.ok THEN Raise("ValueError", <<>>, <<>>)
           ELSE get_nearest_graph_vertices(Get(params, "city", <<>>),
                                           Get(params, "state", None),
                                           Get(params, "country", None), limit.value, g)
      [] branch(api_path) = "/vertex" ->
           get_graph_vertex(Get(params, "vertex_id", <<>>), g)
      [] branch(api_path) = "/path" ->
           LET max_hops == int_param(params, "max_hops", 5) IN
           IF ~max_hops.ok THEN Raise("ValueError", <<>>, <<>>)
           ELSE find_graph_path(Get(params, "start_vertex_id", <<>>),
                                Get(params, "end_vertex_id", <<>>), max_hops.value, g)
      [] branch(api_path) = "/neighbors" ->
           LET limit == int_param(params, "limit", 10) IN
           IF ~limit.ok THEN Raise("ValueError", <<>>, <<>>)
           ELSE get_neighbors(Get(params, "vertex_id", <<>>),
                              Get(params, "relationship_type", None),
                              Get(params, "direction", <<"both">>), limit.value, g)
      [] branch(api_path) = "/test-connection" -> test_neptune_connection(g)
      [] OTHER -> Return([error |-> <<"Unknown API path: ", api_path>>], <<>>, <<>>)

Envelope(action_group, api_path, http_method, response_code, result) ==
    [messageVersion |-> "1.0",
     response |->
        [actionGroup |-> action_group,
         apiPath |-> api_path,
         httpMethod |-> http_method,
         httpStatusCode |-> response_code,
         responseBody |-> [application_json |-> [body |-> json_dumps(result)]]]]

\* respond with status 200 for every result that no exception produced
respond_without_400(action_group, api_path, http_method, r) ==
    IF r.kind = "raise" THEN
        Return(Envelope(action_group, api_path, http_method, 500, [error |-> r.exc]),
               r.calls, r.http)
    ELSE
        Return(Envelope(action_group, api_path, http_method, 200, r.value),
               r.calls, r.http)

\* lines 618-638, given how the routed operation ended
respond(action_group, api_path, http_method, r) ==
    IF r.kind = "raise" THEN
        Return(Envelope(action_group, api_path, http_method, 500, [error |-> r.exc]),
               r.calls, r.http)
    ELSE
        Return(Envelope(action_group, api_path, http_method,
                        IF ~Has(r.value, "error") THEN 200 ELSE 400, r.value),
               r.calls, r.http)

\* line 570: p['name'] or p['value'] of an entry without that key raises
parse_fails(parameters) ==
    \E i \in 1..Len(parameters) :
        ~Has(parameters[i], "name") \/ ~Has(parameters[i], "value")

\* lines 570-638
dispatch(action_group, api_path, http_method, parameters, w, g) ==
    IF parse_fails(parameters) THEN
        \* line 570 is outside the try statement
        Raise("KeyError", <<>>, <<>>)
    ELSE respond(action_group, api_path, http_method,
                 route(api_path, dict_of(parameters), w, g))

lambda_handler(event, w, g) ==
    dispatch(Get(event, "actionGroup", ""), Get(event, "apiPath", ""),
             Get(event, "httpMethod", ""), Get(event, "parameters", <<>>), w, g)

-----------------------------------------------------------------------------
(* The inputs of the model *)

\* city names: the texts of at most MaxLen tokens over a blank and a place
CityNames == UNION {[1..n -> {Space, "London"}] : n \in 0..MaxLen}

Param(name, value) == [name |-> name, value |-> value]

\* the parameter lists tried for an action path; a list may hold an entry
\* without 'value'
ParametersFor(api_path) ==
    CASE api_path = "/coordinates" ->
           {city \o state :
               city \in {<<>>, <<Param("city", <<>>)>>, <<Param("city", <<"London">>)>>},
               state \in {<<>>, <<Param("state", <<"England">>)>>}}
             \cup {<<[name |-> "city"]>>}
      [] api_path = "/distance" ->
           {city1 \o city2 :
               city1 \in {<<>>, <<Param("city1", <<"London">>)>>,
                          <<Param("city1", <<"Rheinfelden">>)>>},
               city2 \in {<<>>, <<Param("city2", <<"London">>)>>,
                          <<Param("city2", <<"Paris">>)>>,
                          <<Param("city2", <<"Westminster">>)>>,
                          <<Param("city2", <<"Antipode">>)>>}}
      [] api_path \in {"/nearest-vertices", "/neighbors"} ->
           {<<Param("vertex_id", <<"v1">>)>> \o limit :
               limit \in {<<>>, <<Param("limit", <<"3">>)>>, <<Param("limit", <<"many">>)>>}}
      [] api_path = "/path" ->
           {<<Param("start_vertex_id", <<"v1">>), Param("end_vertex_id", <<"v2">>)>>
                \o max_hops :
               max_hops \in {<<>>, <<Param("max_hops", <<"3">>)>>}}
      [] api_path = "/vertex" -> {<<>>, <<Param("vertex_id", <<"v1">>)>>}
      [] OTHER -> {<<>>}

ApiPaths ==
    {"/coordinates", "/distance", "/nearest-vertices", "/vertex", "/path",
     "/neighbors", "/test-connection",
     "/getTwoCitiesCoordinates", "/coordinates/", "/Distance", ""}

GeocodingPaths == {"/coordinates", "/distance"}
GraphPaths == {"/nearest-vertices", "/vertex", "/path", "/neighbors", "/test-connection"}

Events ==
    UNION {{[actionGroup |-> "CityCoordinatesActions",
             apiPath |-> path,
             httpMethod |-> "GET",
             parameters |-> parameters] : parameters \in ParametersFor(path)} :
           path \in ApiPaths}

\* the module-level function that is each provider's adapter
AdapterOf ==
    [opencage |-> "geocode_opencage",
     google |-> "geocode_google",
     nominatim |-> "geocode_nominatim"]

\* the queries handed to an adapter that is called on its own
AdapterQueries ==
    {<<>>, <<"London">>, <<"Antipode">>, <<"London", ",", " ", "England">>}

\* what the one provider that a request reaches may do
AdapterBehaviours ==
    {[status |-> f, knows |-> {}] : f \in {"down", "timeout", "http_error", "garbled"}}
        \cup {[status |-> "ok", knows |-> K] : K \in SUBSET Gazetteer}

\* arguments of scale_coordinates, in units of 10^-7 degrees: 45.5152 and
\* -122.6784, values whose product ends in .5, and values out of the range of
\* latitudes [-90, 90] and of longitudes [-180, 180]
ScaleLatitudes ==
    {455152000, 0, 5, 15, 25, -15, 333229205, -333229205, 123456789,
     900000000, -900000000, 950000000}
ScaleLongitudes ==
    {-1226784000, 4, 6, 1299998475, 1799999995, 1800000000,
     2000000000, -2000000000}

\* the collaborators a request cannot reach are left unobserved: a geocoding
\* request reaches the one provider that lines 89-94 select
Unobserved == [p \in Providers |-> [status |-> "unobserved", knows |-> {}]]
WorldsFor(event) ==
    IF event.apiPath \in GeocodingPaths
    THEN {[Unobserved EXCEPT ![selected_provider] = b] : b \in AdapterBehaviours}
    ELSE {Unobserved}
GraphFor(event) == IF event.apiPath \in GraphPaths THEN GraphBehaviours ELSE {"unobserved"}

-----------------------------------------------------------------------------
(* The state machine: one process, one call at a time *)

NoOutcome == [kind |-> "none"]

\* how a call ended, as its caller sees it
OutcomeOf(r) ==
    IF r.kind = "return" THEN [kind |-> "return", value |-> r.value]
    ELSE [kind |-> "raise", exc |-> r.exc]

\* the graph endpoint is configured; the caller holds no NeptuneConnection
\* (the helpers of neptune_connection.py construct their own) and no
\* requests.Session has been created
NoConnection ==
    /\ NEPTUNE_ENDPOINT = <<"neptune">>
    /\ NEPTUNE_USE_IAM = TRUE
    /\ conn = NoneDict
    /\ sessions = <<>>

Init ==
    /\ GEOCODING_PROVIDER \in {"opencage", "google", "nominatim", "mapbox"}
    /\ OPENCAGE_API_KEY \in {<<>>, <<"key">>}
    /\ GOOGLE_MAPS_API_KEY \in {<<>>, <<"key">>}
    /\ pc = "idle"
    /\ op = "none"
    /\ arg = <<>>
    /\ net = Unobserved
    /\ graph = "unobserved"
    /\ outcome = NoOutcome
    /\ calls = <<>>
    /\ http = <<>>
    /\ NoConnection

Config == <<GEOCODING_PROVIDER, OPENCAGE_API_KEY, GOOGLE_MAPS_API_KEY>>

\* the call of entry point name with argument a ended as r says
Ended(name, a, w, g, r) ==
    /\ pc' = "done"
    /\ op' = name
    /\ arg' = a
    /\ net' = w
    /\ graph' = g
    /\ outcome' = OutcomeOf(r)
    /\ calls' = r.calls
    /\ http' = r.http
    /\ UNCHANGED <<Config, Neptune>>

\* a caller runs get_coordinates_with_fallback(city_name)
CallFallback ==
    /\ pc = "idle"
    /\ \E city_name \in CityNames, w \in Worlds :
         Ended("get_coordinates_with_fallback", city_name, w, "unobserved",
               get_coordinates_with_fallback(city_name, w))

\* what a caller of an adapter sees: the adapter has no raise statement and
\* its except clauses end in return None
adapter_result(provider, city_name, r) ==
    Return(r.value, <<AdapterCall(provider, city_name)>>, r.http)

\* a caller runs geocode_opencage, geocode_google or geocode_nominatim
CallGeocode ==
    /\ pc = "idle"
    /\ \E provider \in Providers, city_name \in AdapterQueries, b \in AdapterBehaviours :
         Ended(AdapterOf[provider], city_name, [Unobserved EXCEPT ![provider] = b],
               "unobserved",
               adapter_result(provider, city_name,
                              CallAdapter(AdapterOf[provider], city_name,
                                          [Unobserved EXCEPT ![provider] = b])))

\* a caller runs scale_coordinates(latitude, longitude)
CallScale ==
    /\ pc = "idle"
    /\ \E latitude \in ScaleLatitudes, longitude \in ScaleLongitudes :
         Ended("scale_coordinates", <<latitude, longitude>>, Unobserved, "unobserved",
               Return(scale_coordinates(latitude, longitude), <<>>, <<>>))

\* the caller of scale_coordinates hands the pair it returned to
\* find_nearest_vertices(scaled_lat, scaled_lon, limit)
CallNearest ==
    /\ pc = "done"
    /\ op = "scale_coordinates"
    /\ \E g \in GraphBehaviours :
         Ended("find_nearest_vertices", outcome.value, Unobserved, g,
               find_nearest_vertices(outcome.value[1], outcome.value[2], 2, g))

\* the Lambda runtime runs lambda_handler(event, context)
HandleEvent ==
    /\ pc = "idle"
    /\ \E event \in Events :
         \E w \in WorldsFor(event), g \in GraphFor(event) :
           Ended("lambda_handler", event, w, g, lambda_handler(event, w, g))

\* the call's result has been taken; the process waits for the next call
Finish ==
    /\ pc = "done"
    /\ pc' = "idle"
    /\ op' = "none"
    /\ arg' = <<>>
    /\ net' = Unobserved
    /\ graph' = "unobserved"
    /\ outcome' = NoOutcome
    /\ calls' = <<>>
    /\ http' = <<>>
    /\ UNCHANGED <<Config, Neptune>>

Next == CallFallback \/ CallGeocode \/ CallScale \/ CallNearest \/ HandleEvent \/ Finish

Spec == Init /\ [][Next]_vars

-----------------------------------------------------------------------------
(* Two requests in flight at once.  The Lambda runtime may run a second      *)
(* invocation of lambda_handler while the first is between two of its steps. *)
(* Here pc, arg, net, graph and outcome hold one value per request: the step *)
(* the request has reached, its event, the provider and graph responses it   *)
(* receives, and its local variables (params, then result, then the value    *)
(* returned); calls and http are the invocations of both, in the order made. *)

Reqs == {1, 2}

\* the events and responses of the requests that run at once
ConcurrentEvents ==
    {event \in Events :
        \/ event.apiPath = "/coordinates" /\ Len(event.parameters) <= 1
        \/ event.apiPath = "/distance" /\ Len(event.parameters) = 2
                                       /\ event.parameters[1].value = <<"London">>
                                       /\ event.parameters[2].value = <<"Paris">>
        \/ event.apiPath = "/vertex" /\ Len(event.parameters) = 1}

ConcurrentBehaviours ==
    {[status |-> "timeout", knows |-> {}],
     [status |-> "ok", knows |-> {"London"}],
     [status |-> "ok", knows |-> Places]}

ConcurrentWorldsFor(event) ==
    IF event.apiPath \in GeocodingPaths
    THEN {[Unobserved EXCEPT ![selected_provider] = b] : b \in ConcurrentBehaviours}
    ELSE {Unobserved}

ConcurrentGraphFor(event) ==
    IF event.apiPath \in GraphPaths THEN {"rows", "empty"} ELSE {"unobserved"}

ConcurrentInit ==
    /\ GEOCODING_PROVIDER \in {"opencage", "google", "nominatim", "mapbox"}
    /\ OPENCAGE_API_KEY \in {<<>>, <<"key">>}
    /\ GOOGLE_MAPS_API_KEY \in {<<>>, <<"key">>}
    /\ pc = [i \in Reqs |-> "received"]
    /\ op = "lambda_handler"
    /\ arg \in [Reqs -> ConcurrentEvents]
    /\ net \in [Reqs -> UNION {ConcurrentWorldsFor(event) : event \in ConcurrentEvents}]
    /\ \A i \in Reqs : net[i] \in ConcurrentWorldsFor(arg[i])
    /\ graph \in [Reqs -> {"rows", "empty", "unobserved"}]
    /\ \A i \in Reqs : graph[i] \in ConcurrentGraphFor(arg[i])
    /\ outcome = [i \in Reqs |-> NoOutcome]
    /\ calls = <<>>
    /\ http = <<>>
    /\ NoConnection

\* lines 565-570: request i reads its event and builds params
Parse(i) ==
    /\ pc[i] = "received"
    /\ IF parse_fails(Get(arg[i], "parameters", <<>>))
       THEN /\ pc' = [pc EXCEPT ![i] = "done"]
            /\ outcome' = [outcome EXCEPT ![i] = [kind |-> "raise", exc |-> "KeyError"]]
       ELSE /\ pc' = [pc EXCEPT ![i] = "parsed"]
            /\ outcome' = [outcome EXCEPT
                              ![i] = [kind |-> "params",
                                      params |-> dict_of(Get(arg[i], "parameters", <<>>))]]
    /\ UNCHANGED <<Config, Neptune, op, arg, net, graph, calls, http>>

\* Routed making Nominatim the configured provider once an operation has
\* ended in an error
Routed_switching_provider(i, r) ==
    /\ pc' = [pc EXCEPT ![i] = "routed"]
    /\ outcome' = [outcome EXCEPT ![i] = [kind |-> "result", r |-> r]]
    /\ calls' = calls \o r.calls
    /\ http' = http \o r.http
    /\ GEOCODING_PROVIDER' =
          IF r.kind = "return" /\ Has(r.value, "error") THEN "nominatim"
          ELSE GEOCODING_PROVIDER
    /\ UNCHANGED <<Neptune, OPENCAGE_API_KEY, GOOGLE_MAPS_API_KEY, op, arg, net, graph>>

\* request i holds r, the end of its routed operation
Routed(i, r) ==
    /\ pc' = [pc EXCEPT ![i] = "routed"]
    /\ outcome' = [outcome EXCEPT ![i] = [kind |-> "result", r |-> r]]
    /\ calls' = calls \o r.calls
    /\ http' = http \o r.http
    /\ UNCHANGED <<Config, Neptune, op, arg, net, graph>>

\* lines 574-616: request i runs the operation of its action path
Route(i) ==
    /\ pc[i] = "parsed"
    /\ Routed(i, route(Get(arg[i], "apiPath", ""), outcome[i].params, net[i], graph[i]))

\* lines 618-638: request i returns its envelope
Reply(i) ==
    /\ pc[i] = "routed"
    /\ pc' = [pc EXCEPT ![i] = "done"]
    /\ outcome' = [outcome EXCEPT
                      ![i] = OutcomeOf(respond(Get(arg[i], "actionGroup", ""),
                                               Get(arg[i], "apiPath", ""),
                                               Get(arg[i], "httpMethod", ""),
                                               outcome[i].r))]
    /\ UNCHANGED <<Config, Neptune, op, arg, net, graph, calls, http>>

ConcurrentNext == \E i \in Reqs : Parse(i) \/ Route(i) \/ Reply(i)

Concurrent == ConcurrentInit /\ [][ConcurrentNext]_vars

-----------------------------------------------------------------------------
(* neptune_connection.py: the NeptuneConnection class.  Its methods call     *)
(* one another (connect runs a test query through execute_query, and         *)
(* execute_query connects a disconnected object), so a call is followed      *)
(* through a record p of its progress: the object's fields (self), the       *)
(* sessions created, the queries posted (http) and the methods entered       *)
(* (calls), with how the innermost finished call ended (kind, value, exc).   *)

\* the method entries of one call after which the chain of calls counts as
\* unbounded and Python raises RecursionError (straight-line code enters at
\* most five methods: __enter__, connect, execute_query twice and close)
RecursionLimit == 6

\* the requests.Session objects the model lets a run create
MaxSessions == 3

\* lines 23-26: NeptuneConnection()
new_connection == [_session |-> None, _auth |-> None, _base_url |-> None]

\* the id-th requests.Session object created
Session(id) == <<"Session", id>>

\* line 68: the query that tests a new connection
TestQuery == "MATCH (n) RETURN count(n) as count LIMIT 1"

\* What the surroundings do during one call: boto3 finds credentials or
\* returns None, the endpoint answers the k-th POST of the call or the POST
\* fails, and closing a session returns or raises.
Surroundings ==
    [credentials : {"found", "none"},
     responses : [1..2 -> {"ok", "fail"}],
     closing : {"ok", "raises"}]

\* the progress of a call that starts on the object self
Started(self, created) ==
    [kind |-> "return", value |-> None, exc |-> "",
     self |-> self, sessions |-> created, http |-> <<>>, calls |-> <<>>]

entered(p, method) == [p EXCEPT !.calls = Append(@, method)]
returned(p, v) == [p EXCEPT !.kind = "return", !.value = v, !.exc = ""]
raised(p, e) == [p EXCEPT !.kind = "raise", !.value = None, !.exc = e]

\* lines 105-152: the POST, and the rows of the answer or the exception that
\* raise_for_status re-raised (the surroundings answer two POSTs of a call)
post(p, query, e) ==
    IF Len(p.http) < 2 /\ e.responses[Len(p.http) + 1] = "ok"
    THEN returned([p EXCEPT !.http = Append(@, [session |-> p.self._session,
                                                auth |-> p.self._auth,
                                                q |-> query])],
                  <<[count |-> 1]>>)
    ELSE raised([p EXCEPT !.http = Append(@, [session |-> p.self._session,
                                              auth |-> p.self._auth,
                                              q |-> query])],
                "RequestException")

\* lines 98-152 after the connect() of line 99: its exception passes through,
\* it being raised outside the try statement
post_if_connected(p, query, e) ==
    IF p.kind = "raise" THEN p ELSE post(p, query, e)

\* lines 45-53: the base URL and the session are assigned before the test query
with_session(p) ==
    [p EXCEPT !.self._base_url = <<IF NEPTUNE_USE_IAM THEN "https" ELSE "http",
                                   NEPTUNE_ENDPOINT>>,
              !.self._session = Session(Len(p.sessions) + 1),
              !.sessions = Append(@, "open")]

\* lines 58-64
with_auth(p) == [p EXCEPT !.self._auth = <<"AWS4Auth">>]

\* lines 68-73, given how the test query ended: every exception becomes a
\* ConnectionError
connect_tested(p) == IF p.kind = "raise" THEN raised(p, "ConnectionError") ELSE returned(p, None)

RECURSIVE connect(_, _)
RECURSIVE execute_query(_, _, _)

\* lines 87-152
execute_query(p, query, e) ==
    IF Len(p.calls) >= RecursionLimit THEN raised(p, "RecursionError")
    ELSE IF p.self._session = None
         THEN post_if_connected(connect(entered(p, "execute_query"), e), query, e)
         ELSE post(entered(p, "execute_query"), query, e)

\* lines 55-73: the try statement of connect, with the session assigned
connect_try(p, e) ==
    IF NEPTUNE_USE_IAM /\ e.credentials = "none" THEN
        \* credentials.access_key of None raises AttributeError, caught at line 71
        raised(p, "ConnectionError")
    ELSE connect_tested(execute_query(IF NEPTUNE_USE_IAM THEN with_auth(p) ELSE p,
                                      TestQuery, e))

\* lines 37-73
connect(p, e) ==
    IF Len(p.calls) >= RecursionLimit THEN raised(p, "RecursionError")
    ELSE IF p.self._session # None THEN returned(entered(p, "connect"), None)
    ELSE IF NEPTUNE_ENDPOINT = <<>> THEN raised(entered(p, "connect"), "ValueError")
    ELSE connect_try(with_session(entered(p, "connect")), e)

\* the session object that the field names
session_id(field) == field[2]

\* close clearing the fields after session.close() inside the try statement
close_clearing_in_try(p, e) ==
    IF p.self._session = None THEN returned(entered(p, "close"), None)
    ELSE IF e.closing = "raises" THEN
        returned([entered(p, "close") EXCEPT
                     !.sessions[session_id(p.self._session)] = "close raised"], None)
    ELSE returned([entered(p, "close") EXCEPT
                     !.sessions[session_id(p.self._session)] = "closed",
                     !.self._session = None,
                     !.self._auth = None], None)

\* lines 75-85
close(p, e) ==
    IF p.self._session = None THEN returned(entered(p, "close"), None)
    ELSE returned([entered(p, "close") EXCEPT
                     !.sessions[session_id(p.self._session)] =
                         IF e.closing = "ok" THEN "closed" ELSE "close raised",
                     !.self._session = None,
                     !.self._auth = None], None)

\* lines 32-34: __exit__ closes and lets the exception of the body pass
exit(p, e) ==
    IF p.kind = "raise" THEN raised(close(p, e), p.exc) ELSE returned(close(p, e), p.value)

\* lines 28-34: 'with NeptuneConnection() as conn: conn.execute_query(query)';
\* when __enter__ raises, the body and __exit__ do not run
with_body(p, query, e) ==
    IF p.kind = "raise" THEN p ELSE exit(execute_query(p, query, e), e)

with_connection(created, query, e) ==
    with_body(connect(entered(Started(new_connection, created), "__enter__"), e), query, e)

\* the queries a caller hands to execute_query
Queries == {"MATCH (n) RETURN count(n) AS count"}

ConnectionInit ==
    /\ GEOCODING_PROVIDER = "nominatim"
    /\ OPENCAGE_API_KEY = <<>>
    /\ GOOGLE_MAPS_API_KEY = <<>>
    /\ pc = "idle"
    /\ op = "none"
    /\ arg = <<>>
    /\ net = Unobserved
    /\ graph = "unobserved"
    /\ outcome = NoOutcome
    /\ calls = <<>>
    /\ http = <<>>
    /\ NEPTUNE_ENDPOINT \in {<<>>, <<"neptune">>}
    /\ NEPTUNE_USE_IAM \in BOOLEAN
    /\ conn = new_connection
    /\ sessions = <<>>

\* the call of a method, or the with statement, ended as p says
MethodEnded(name, a, e, p) ==
    /\ pc' = "done"
    /\ op' = name
    /\ arg' = a
    /\ graph' = e
    /\ outcome' = IF p.kind = "return" THEN [kind |-> "return", value |-> p.value]
                  ELSE [kind |-> "raise", exc |-> p.exc]
    /\ calls' = p.calls
    /\ http' = p.http
    /\ sessions' = p.sessions
    /\ UNCHANGED <<Config, NEPTUNE_ENDPOINT, NEPTUNE_USE_IAM, net>>

\* the caller drops its object and constructs a new one
Construct ==
    /\ pc = "idle"
    /\ conn # new_connection
    /\ conn' = new_connection
    /\ UNCHANGED <<Config, NEPTUNE_ENDPOINT, NEPTUNE_USE_IAM, sessions,
                   pc, op, arg, net, graph, outcome, calls, http>>

\* the caller runs conn.connect()
CallConnect ==
    /\ pc = "idle"
    /\ Len(sessions) < MaxSessions
    /\ \E e \in Surroundings :
         /\ MethodEnded("connect", <<>>, e, connect(Started(conn, sessions), e))
         /\ conn' = connect(Started(conn, sessions), e).self

\* the caller runs conn.execute_query(query)
CallExecuteQuery ==
    /\ pc = "idle"
    /\ Len(sessions) < MaxSessions
    /\ \E query \in Queries, e \in Surroundings :
         /\ MethodEnded("execute_query", query, e,
                        execute_query(Started(conn, sessions), query, e))
         /\ conn' = execute_query(Started(conn, sessions), query, e).self

\* the caller runs conn.close()
CallClose ==
    /\ pc = "idle"
    /\ \E e \in Surroundings :
         /\ MethodEnded("close", <<>>, e, close(Started(conn, sessions), e))
         /\ conn' = close(Started(conn, sessions), e).self

\* a helper runs its with statement on an object of its own
CallWith ==
    /\ pc = "idle"
    /\ Len(sessions) < MaxSessions
    /\ \E query \in Queries, e \in Surroundings :
         /\ MethodEnded("with", query, e, with_connection(sessions, query, e))
         /\ conn' = conn

ConnectionNext ==
    Construct \/ CallConnect \/ CallExecuteQuery \/ CallClose \/ CallWith \/ Finish

Connection == ConnectionInit /\ [][ConnectionNext]_vars

-----------------------------------------------------------------------------
(* Properties of the fallback router *)

RouterDone == pc = "done" /\ op = "get_coordinates_with_fallback"

\* the city name is empty or holds whitespace only
Blank(city_name) == \A i \in 1..Len(city_name) : city_name[i] = Space

ProvidersOf(cs) == [i \in 1..Len(cs) |-> cs[i].provider]

IsPrefix(s, t) == Len(s) <= Len(t) /\ \A i \in 1..Len(s) : s[i] = t[i]

\* the order section 4.2 of the specification prescribes
ExpectedOrder ==
    IF GEOCODING_PROVIDER \in Providers THEN
        <<GEOCODING_PROVIDER>> \o SelectSeq(ProviderNames, LAMBDA n : n # GEOCODING_PROVIDER)
    ELSE ProviderNames

\* provider p's adapter, called with the city name, would return a match
WouldMatch(p) == Succeeded(geocode(p, arg, net).value)

\* the first provider of the expected order that would match is the k-th
FirstMatch(k) ==
    /\ k \in 1..Len(ExpectedOrder)
    /\ WouldMatch(ExpectedOrder[k])
    /\ \A j \in 1..(k - 1) : ~WouldMatch(ExpectedOrder[j])

InRange(record) ==
    /\ Has(record, "latitude") /\ Has(record, "longitude")
    /\ -90 * UnitsPerDegree <= record.latitude /\ record.latitude <= 90 * UnitsPerDegree
    /\ -180 * UnitsPerDegree <= record.longitude /\ record.longitude <= 180 * UnitsPerDegree

\* C1: for a non-empty city name the router invokes the adapters in the
\* prescribed order (the preferred provider first when it is recognized, then
\* the others in the fixed order; all three in the fixed order otherwise),
\* starting with the first of that order, and invokes none of them twice.
C1_AdaptersInvokedInOrder ==
    (RouterDone /\ ~Blank(arg)) =>
        /\ Len(calls) >= 1
        /\ IsPrefix(ProvidersOf(calls), ExpectedOrder)
        /\ \A i, j \in 1..Len(calls) : calls[i].provider = calls[j].provider => i = j

\* C2: when the preferred provider is "google" and the Google adapter returns
\* a match for the city, the router returns that match and invokes no adapter
\* but Google's.
C2_FirstSuccessEndsCall ==
    (RouterDone /\ ~Blank(arg) /\ GEOCODING_PROVIDER = "google" /\ WouldMatch("google")) =>
        /\ ProvidersOf(calls) = <<"google">>
        /\ outcome.kind = "return"
        /\ outcome.value = geocode_google(arg, net).value

\* C3: for a non-blank city name that at least one adapter would match, the
\* router returns, without raising, a record with success=true, a latitude
\* in [-90,90] and a longitude in [-180,180].
C3_SucceedsWhenAProviderMatches ==
    (RouterDone /\ ~Blank(arg) /\ \E p \in Providers : WouldMatch(p)) =>
        /\ outcome.kind = "return"
        /\ Succeeded(outcome.value)
        /\ InRange(outcome.value)

\* C4: for an empty or all-whitespace city name the router returns the record
\* with success=false and the error "City name cannot be empty", having
\* invoked no adapter and issued no HTTP request.
C4_BlankCityRejected ==
    (RouterDone /\ Blank(arg)) =>
        /\ outcome = [kind |-> "return",
                      value |-> [success |-> FALSE,
                                 city |-> arg,
                                 error |-> "City name cannot be empty"]]
        /\ calls = <<>>
        /\ http = <<>>

\* C4 witness: a city name of whitespace only has been rejected
C4_Witness ==
    /\ RouterDone
    /\ arg # <<>> /\ Blank(arg)
    /\ outcome.kind = "return"
    /\ outcome.value.error = "City name cannot be empty"

\* C5: when the preferred provider does not match and another provider does,
\* the router has invoked the preferred provider and then the remaining ones
\* in the fixed order up to the first that matches, and it returns that
\* provider's match with a note naming the preferred provider; a match of the
\* preferred provider itself is returned without a note.
C5_FallbackNoted ==
    (RouterDone /\ ~Blank(arg) /\ GEOCODING_PROVIDER \in Providers) =>
        /\ \A k \in 2..Len(ExpectedOrder) :
             FirstMatch(k) =>
               /\ ProvidersOf(calls) = SubSeq(ExpectedOrder, 1, k)
               /\ outcome.kind = "return"
               /\ Succeeded(outcome.value)
               /\ Has(outcome.value, "note")
               /\ \E i \in 1..Len(outcome.value.note) :
                    outcome.value.note[i] = GEOCODING_PROVIDER
        /\ FirstMatch(1) =>
               /\ outcome.kind = "return"
               /\ Succeeded(outcome.value)
               /\ ~Has(outcome.value, "note")

\* C6: when no adapter matches, the router returns the terminal record with
\* success=false, the list of attempted providers and the configured
\* provider, after having invoked every provider exactly once.
C6_AllProvidersFailed ==
    (RouterDone /\ ~Blank(arg) /\ \A p \in Providers : ~WouldMatch(p)) =>
        /\ outcome.kind = "return"
        /\ outcome.value.success = FALSE
        /\ outcome.value.attempted_providers = ProviderNames
        /\ outcome.value.configured_provider = GEOCODING_PROVIDER
        /\ \A p \in Providers :
             Cardinality({i \in 1..Len(calls) : calls[i].provider = p}) = 1

-----------------------------------------------------------------------------
(* Properties of the request dispatcher *)

HandlerDone == pc = "done" /\ op = "lambda_handler"

\* every entry of the event's parameter list has a name and a value
WellFormed == \A i \in 1..Len(arg.parameters) : DOMAIN arg.parameters[i] = {"name", "value"}

Status == outcome.value.response.httpStatusCode
Body == outcome.value.response.responseBody.application_json.body.json

\* the request gives no value, or an empty one, for the parameter
MissingOrEmpty(name) ==
    \A i \in 1..Len(arg.parameters) :
        arg.parameters[i].name = name => arg.parameters[i].value = <<>>

\* the request lacks a parameter its action path requires
RequiredMissing ==
    \/ arg.apiPath = "/coordinates" /\ MissingOrEmpty("city")
    \/ arg.apiPath = "/distance" /\ (MissingOrEmpty("city1") \/ MissingOrEmpty("city2"))

\* the request gives the parameter a value that is no numeral
NotANumber(name) ==
    \E i \in 1..Len(arg.parameters) :
        /\ arg.parameters[i].name = name
        /\ arg.parameters[i].value \notin {<<"1">>, <<"2">>, <<"3">>, <<"5">>, <<"10">>}

\* the i-th adapter invocation of the request found the place it was asked for
Geocoded(i) ==
    /\ net[calls[i].provider].status = "ok"
    /\ \E j \in 1..Len(calls[i].q) : calls[i].q[j] \in net[calls[i].provider].knows

\* the i-th adapter invocation reached its provider, which knew no such place
NotFound(i) ==
    /\ net[calls[i].provider].status = "ok"
    /\ \A j \in 1..Len(calls[i].q) : calls[i].q[j] \notin net[calls[i].provider].knows

\* the place the i-th adapter invocation of the request found
Found(i) == CHOOSE p \in Lookup(calls[i].q, net[calls[i].provider].knows) : TRUE

\* the request makes an operation behind the dispatcher raise
UnexpectedException ==
    \/ arg.apiPath \in {"/nearest-vertices", "/neighbors"} /\ NotANumber("limit")
    \/ arg.apiPath = "/path" /\ NotANumber("max_hops")
    \/ arg.apiPath = "/nearest-vertices" /\ graph \in {"connect_fail", "query_fail"}
    \/ /\ arg.apiPath = "/distance"
       /\ Len(calls) = 2
       /\ Geocoded(1) /\ Geocoded(2)
       /\ {Found(1), Found(2)} = {"Rheinfelden", "Antipode"}

\* C7: lambda_handler ends every request by returning an envelope of the one
\* shape (status code and JSON body, with actionGroup, apiPath and httpMethod
\* echoed); no exception escapes it.
C7_AlwaysAnEnvelope ==
    HandlerDone =>
        /\ outcome.kind = "return"
        /\ DOMAIN outcome.value = {"messageVersion", "response"}
        /\ DOMAIN outcome.value.response =
               {"actionGroup", "apiPath", "httpMethod", "httpStatusCode", "responseBody"}
        /\ outcome.value.response.actionGroup = arg.actionGroup
        /\ outcome.value.response.apiPath = arg.apiPath
        /\ outcome.value.response.httpMethod = arg.httpMethod
        /\ Status \in {200, 400, 500}

\* C8: a request without its required parameter (city for /coordinates, city1
\* or city2 for /distance) is answered with a failure envelope, no adapter
\* having been invoked and no HTTP request issued.
C8_MissingParameterShortCircuits ==
    (/\ HandlerDone
     /\ WellFormed
     /\ RequiredMissing)
    => /\ outcome.kind = "return"
       /\ Has(Body, "error")
       /\ calls = <<>>
       /\ http = <<>>

\* C9 as stated: the envelope carries 200 for every result produced without an
\* unexpected exception, geocode-not-found included, and a 5xx status only
\* when an unexpected exception occurred (checked on the requests that carry
\* their required parameters).
C9_Original ==
    (HandlerDone /\ WellFormed /\ ~RequiredMissing) =>
        /\ ~UnexpectedException => Status = 200
        /\ Status >= 500 => UnexpectedException

\* C9 as amended: the envelope carries 500 exactly when an operation behind
\* the dispatcher raised; otherwise it carries 400 when the result has an
\* 'error' field, as a geocode-not-found result has, and 200 when it has none.
C9_StatusCodes ==
    (HandlerDone /\ WellFormed) =>
        /\ Status = 500 <=> UnexpectedException
        /\ ~UnexpectedException => Status = IF Has(Body, "error") THEN 400 ELSE 200
        /\ (arg.apiPath \in GeocodingPaths /\ \E i \in 1..Len(calls) : NotFound(i))
               => Status = 400

\* C9 witness: a /coordinates request whose place the provider did not find
\* has been answered with status 400
C9_Witness ==
    /\ HandlerDone /\ WellFormed
    /\ arg.apiPath = "/coordinates"
    /\ ~MissingOrEmpty("city")
    /\ Len(calls) = 1 /\ NotFound(1)
    /\ Status = 400
    /\ Body.error = "No results found"

\* C10 as stated: when one city of a two-city lookup fails to geocode, the
\* result holds both per-city sub-results and no distance field; a distance is
\* present only when both geocodes succeeded (checked on the requests that
\* name both cities).
C10_Original ==
    (HandlerDone /\ WellFormed /\ arg.apiPath = "/distance" /\ ~RequiredMissing) =>
        /\ (~Geocoded(1) \/ ~Geocoded(2)) =>
              /\ Has(Body, "city1") /\ Has(Body, "city2")
              /\ ~Has(Body, "distance_km")
        /\ Has(Body, "distance_km") => (Geocoded(1) /\ Geocoded(2))

\* the result of a two-city lookup is the error record of the i-th city alone
OnlyFailureOf(i) ==
    /\ Has(Body, "error")
    /\ DOMAIN Body \cap {"city1", "city2", "distance_km", "distance_miles",
                         "latitude", "longitude"} = {}
    /\ IF NotFound(i) THEN Body.success = FALSE /\ Body.city = calls[i].q
       ELSE ~Has(Body, "success") /\ Body.query = calls[i].q

\* C10 as amended: when a city of a two-city lookup fails to geocode, the
\* result is the error record of the failed city alone (of the first city when
\* both fail), with success=false when the provider found nothing and no
\* success field when the adapter returned None; it holds no per-city
\* sub-results and no distance.  Both sub-results and the two distances are
\* present only when both geocodes succeeded, and are present then unless the
\* calculation raised.
C10_DistanceOnlyWhenBothGeocoded ==
    (HandlerDone /\ WellFormed /\ arg.apiPath = "/distance") =>
        /\ Len(calls) = 2
        /\ ~Geocoded(1) => OnlyFailureOf(1)
        /\ (Geocoded(1) /\ ~Geocoded(2)) => OnlyFailureOf(2)
        /\ Has(Body, "distance_km") =>
              /\ Geocoded(1) /\ Geocoded(2)
              /\ DOMAIN Body = {"city1", "city2", "distance_km", "distance_miles"}
        /\ (Geocoded(1) /\ Geocoded(2) /\ ~UnexpectedException) =>
              Has(Body, "distance_km")

\* C10 witness: the first city was geocoded, the second was not, and the
\* result is the second city's error record
C10_Witness ==
    /\ HandlerDone /\ WellFormed
    /\ arg.apiPath = "/distance"
    /\ Len(calls) = 2
    /\ Geocoded(1) /\ ~Geocoded(2)
    /\ Has(Body, "error")

-----------------------------------------------------------------------------
(* Properties of the provider adapters *)

AdapterDone == pc = "done" /\ op \in {AdapterOf[p] : p \in Providers}

\* the provider whose adapter was called, what it did and what came back
Called == calls[1].provider
Result == outcome.value

\* the request to the provider failed: no connection, no answer in time, an
\* HTTP error status, or a body the adapter cannot take apart
RequestFailed == net[Called].status \in {"down", "timeout", "http_error", "garbled"}

\* C11: an adapter whose request fails (connection error, HTTP error status,
\* timeout, unparsable response) returns None to its caller and does not
\* raise; a timeout ends as every other failure does.
C11_AdapterFailuresBecomeNone ==
    AdapterDone =>
        /\ outcome.kind = "return"
        /\ (http # <<>> /\ RequestFailed) => Result = NoneDict
        /\ (http # <<>> /\ ~RequestFailed) => Result # NoneDict

\* C11 witness: the Nominatim adapter's request timed out and it returned None
C11_Witness ==
    /\ AdapterDone
    /\ Called = "nominatim"
    /\ http = <<HttpRequest("nominatim", arg)>>
    /\ net[Called].status = "timeout"
    /\ Result = NoneDict

\* the API key the provider's adapter needs; Nominatim needs none
KeyMissing(p) ==
    \/ p = "opencage" /\ OPENCAGE_API_KEY = <<>>
    \/ p = "google" /\ GOOGLE_MAPS_API_KEY = <<>>

\* C12: an adapter whose API key is missing returns None without issuing an
\* HTTP request; a /coordinates request under a configured provider whose key
\* is missing is served by the Nominatim adapter, never ends in status 500,
\* and every get_coordinates call invokes exactly one adapter.
C12_MissingKeyDisablesAdapter ==
    /\ (AdapterDone /\ KeyMissing(Called)) =>
          /\ outcome.kind = "return"
          /\ Result = NoneDict
          /\ http = <<>>
    /\ (HandlerDone /\ WellFormed /\ arg.apiPath = "/coordinates") =>
          /\ Len(calls) = 1
          /\ KeyMissing(GEOCODING_PROVIDER) =>
                /\ calls[1].provider = "nominatim"
                /\ http = <<HttpRequest("nominatim", calls[1].q)>>
                /\ Status # 500
                /\ Geocoded(1) => (Status = 200 /\ Body.source = "Nominatim (OpenStreetMap)")
    /\ (HandlerDone /\ WellFormed /\ arg.apiPath = "/distance") => Len(calls) = 2

\* C12 witness: the configured provider is opencage, its key is missing, and
\* the /coordinates request was answered from Nominatim
C12_Witness ==
    /\ HandlerDone /\ WellFormed
    /\ arg.apiPath = "/coordinates"
    /\ GEOCODING_PROVIDER = "opencage" /\ OPENCAGE_API_KEY = <<>>
    /\ calls[1].provider = "nominatim"
    /\ Status = 200
    /\ Body.source = "Nominatim (OpenStreetMap)"

\* the place the provider of the adapter found for the query
Place == CHOOSE p \in Lookup(arg, net[Called].knows) : TRUE

C14_RoutesByExactPath ==
    (HandlerDone /\ WellFormed) =>
        CASE arg.apiPath = "/coordinates" ->
               Len(calls) = 1 /\ calls[1].provider \in Providers
          [] arg.apiPath = "/distance" ->
               Len(calls) = 2 /\ \A i \in 1..2 : calls[i].provider \in Providers
          [] arg.apiPath = "/nearest-vertices" ->
               calls = IF NotANumber("limit") THEN <<>>
                       ELSE <<GraphCall("find_nearest_vertices")>>
          [] arg.apiPath = "/vertex" -> calls = <<GraphCall("get_vertex_by_id")>>
          [] arg.apiPath = "/path" ->
               calls = IF NotANumber("max_hops") THEN <<>>
                       ELSE <<GraphCall("find_path_between_vertices")>>
          [] arg.apiPath = "/neighbors" ->
               calls = IF NotANumber("limit") THEN <<>>
                       ELSE <<GraphCall("get_vertex_neighbors")>>
          [] arg.apiPath = "/test-connection" -> calls = <<GraphCall("test_connection")>>
          [] OTHER ->
               /\ calls = <<>>
               /\ http = <<>>
               /\ Body = [error |-> <<"Unknown API path: ", arg.apiPath>>]

\* C14 witness: a request for a path that differs from a known one by a
\* trailing slash was answered 'Unknown API path'
C14_Witness ==
    /\ HandlerDone
    /\ arg.apiPath = "/coordinates/"
    /\ calls = <<>>
    /\ Body.error = <<"Unknown API path: ", "/coordinates/">>

-----------------------------------------------------------------------------
(* Properties of requests in flight at once *)

\* what lambda_handler returns for request i when it handles it alone
Alone(i) == OutcomeOf(lambda_handler(arg[i], net[i], graph[i]))

\* C15: with two requests in flight, in every interleaving of their steps,
\* each request ends with the response it gets when it is handled alone (a
\* function of its event, the configuration and the responses it receives),
\* and no step of either request changes the module-level configuration.
C15_RequestsAreIndependent ==
    /\ [](\A i \in Reqs : pc[i] = "done" => outcome[i] = Alone(i))
    /\ [][UNCHANGED Config]_vars

\* C15 witness: request 2 was handled from start to end while request 1 was
\* between parsing and routing, and both reached a provider
C15_Witness ==
    /\ pc[1] = "parsed"
    /\ pc[2] = "done"
    /\ arg[1].apiPath = "/coordinates"
    /\ arg[2].apiPath = "/distance"
    /\ outcome[2].kind = "return"
    /\ outcome[2].value.response.httpStatusCode = 200
    /\ Len(http) = 2

-----------------------------------------------------------------------------
(* Properties of the records passed from the adapters to the response *)

\* the record the i-th adapter invocation of the request returned
AdapterRecord(i) == geocode(calls[i].provider, calls[i].q, net).value

\* every field the adapter set is in the record b with the adapter's value
Keeps(b, a) == \A k \in DOMAIN a : Has(b, k) /\ b[k] = a[k]

\* s is an integer nearest to v / 10
Nearest(s, v) == -5 <= 10 * s - v /\ 10 * s - v <= 5

\* C16 as stated: the record of a /coordinates response is the record the one
\* adapter call returned, with no field added, removed or changed.
C16_Original ==
    (HandlerDone /\ WellFormed /\ arg.apiPath = "/coordinates"
       /\ AdapterRecord(1) # NoneDict) =>
        /\ Len(calls) = 1
        /\ Body = AdapterRecord(1)

\* C16 as amended: each get_coordinates call invokes one adapter; to a record
\* with latitude and longitude get_coordinates adds the fields scaled_latitude
\* and scaled_longitude, and only those, keeping every field the adapter set;
\* a record without coordinates is passed on as it is.  calculate_distance
\* returns a failed city's record as get_coordinates returned it, or builds a
\* new result from the coordinates of both records.  The fallback router
\* passes on no adapter record: it returns only when it has invoked none.
C16_ScaledFieldsAdded ==
    /\ (HandlerDone /\ WellFormed /\ arg.apiPath = "/coordinates"
          /\ AdapterRecord(1) # NoneDict) =>
          /\ Len(calls) = 1
          /\ Keeps(Body, AdapterRecord(1))
          /\ IF Has(AdapterRecord(1), "latitude") /\ Has(AdapterRecord(1), "longitude")
             THEN /\ DOMAIN Body = DOMAIN AdapterRecord(1)
                                      \cup {"scaled_latitude", "scaled_longitude"}
                  /\ Nearest(Body.scaled_latitude, Body.latitude)
                  /\ Nearest(Body.scaled_longitude, Body.longitude)
             ELSE Body = AdapterRecord(1)
    /\ (HandlerDone /\ WellFormed /\ arg.apiPath = "/distance"
          /\ outcome.value.response.httpStatusCode # 500) =>
          /\ Len(calls) = 2
          /\ IF Has(Body, "distance_km")
             THEN \A i \in 1..2 :
                    /\ Body[<<"city1", "city2">>[i]].latitude = AdapterRecord(i).latitude
                    /\ Body[<<"city1", "city2">>[i]].longitude = AdapterRecord(i).longitude
                    /\ Nearest(Body[<<"city1", "city2">>[i]].scaled_latitude,
                               AdapterRecord(i).latitude)
                    /\ Nearest(Body[<<"city1", "city2">>[i]].scaled_longitude,
                               AdapterRecord(i).longitude)
             ELSE \E i \in 1..2 :
                    \/ AdapterRecord(i) = NoneDict /\ Body.query = calls[i].q
                    \/ AdapterRecord(i) # NoneDict /\ Body = AdapterRecord(i)
    /\ (RouterDone /\ outcome.kind = "return") => calls = <<>>

\* C16 witness: a /coordinates request was geocoded and its record holds the
\* adapter's fields and the two scaled fields
C16_Witness ==
    /\ HandlerDone /\ WellFormed
    /\ arg.apiPath = "/coordinates"
    /\ Geocoded(1)
    /\ Has(Body, "scaled_latitude")
    /\ ~Has(AdapterRecord(1), "scaled_latitude")
    /\ Body.latitude = AdapterRecord(1).latitude

-----------------------------------------------------------------------------
(* Properties of coordinate scaling *)

ScaleDone == pc = "done" /\ op = "scale_coordinates"

\* C17: scale_coordinates(lat, lon) returns a pair of integers, each an integer
\* nearest to the argument times 1,000,000, for arguments in and out of the
\* range of latitudes and longitudes alike (nothing is clamped); and
\* scale_coordinates(45.5152, -122.6784) = (45515200, -122678400).
C17_ScaleRoundsToNearest ==
    ScaleDone =>
        /\ outcome.kind = "return"
        /\ outcome.value \in Int \X Int
        /\ Nearest(outcome.value[1], arg[1])
        /\ Nearest(outcome.value[2], arg[2])
        /\ (arg = <<455152000, -1226784000>>
              => outcome.value = <<45515200, -122678400>>)

\* C17 witness: scale_coordinates(45.5152, -122.6784) returned
\* (45515200, -122678400)
C17_Witness ==
    /\ ScaleDone
    /\ arg = <<455152000, -1226784000>>
    /\ outcome.value = <<45515200, -122678400>>

\* a latitude in [-90, 90] and a longitude in [-180, 180]
ValidDegrees(a) ==
    /\ -90 * UnitsPerDegree <= a[1] /\ a[1] <= 90 * UnitsPerDegree
    /\ -180 * UnitsPerDegree <= a[2] /\ a[2] <= 180 * UnitsPerDegree

\* v and w differ by at most 1e-6 degrees
Within1e6(v, w) ==
    /\ v - w <= UnitsPerDegree \div Scale
    /\ w - v <= UnitsPerDegree \div Scale

\* C18: when the pair scale_coordinates returned for a latitude in [-90, 90]
\* and a longitude in [-180, 180] is handed to find_nearest_vertices, the
\* latitude and longitude it computes for display by dividing the scaled
\* integers by 1,000,000 are within 1e-6 degrees of the original values.
C18_RoundTrip ==
    [][(ScaleDone /\ ValidDegrees(arg) /\ op' = "find_nearest_vertices"
          /\ outcome'.kind = "return" /\ outcome'.value # <<>>) =>
         /\ Within1e6(outcome'.value[1].latitude, arg[1])
         /\ Within1e6(outcome'.value[1].longitude, arg[2])]_vars

\* C18 witness: find_nearest_vertices was handed 33322921 and 180000000, the
\* scaled values of 33.3229205 and 179.9999995, and computed the latitude
\* 33.322921 and the longitude 180.0
C18_Witness ==
    /\ pc = "done"
    /\ op = "find_nearest_vertices"
    /\ arg = <<33322921, 180000000>>
    /\ outcome.kind = "return"
    /\ outcome.value # <<>>
    /\ outcome.value[1].latitude = 333229210
    /\ outcome.value[1].longitude = 1800000000

-----------------------------------------------------------------------------
(* Properties of the distance calculation *)

\* a /distance request ended and both of its cities were geocoded
BothGeocoded ==
    /\ HandlerDone /\ WellFormed
    /\ arg.apiPath = "/distance"
    /\ Len(calls) = 2
    /\ Geocoded(1) /\ Geocoded(2)

\* C19: for every two geocoded cities the calculation ends without raising
\* and reports a distance_km that is at least 0, and that is 0 if and only if
\* the coordinates of the two cities are identical.
C19_DistanceZeroIffIdentical ==
    BothGeocoded =>
        /\ Has(Body, "distance_km")
        /\ Body.distance_km >= 0
        /\ Body.distance_km = 0 <=> Point(Found(1)) = Point(Found(2))

\* the eight compass directions, clockwise from north
Directions == <<"N", "NE", "E", "SE", "S", "SW", "W", "NW">>

-----------------------------------------------------------------------------
(* Properties of get_coordinates and its callers *)

\* a /coordinates request ended after one adapter invocation
CoordinatesDone ==
    /\ HandlerDone /\ WellFormed
    /\ arg.apiPath = "/coordinates"
    /\ Len(calls) = 1

\* C21: when the adapter get_coordinates chose returns None (the request to
\* the provider failed or its answer could not be read), get_coordinates
\* raises nothing and returns a record with 'error' and 'query' and without
\* latitude, longitude and scaled coordinates, and lambda_handler answers the
\* /coordinates request with status 400.
C21_AdapterNoneGives400 ==
    (CoordinatesDone /\ AdapterRecord(1) = NoneDict) =>
        /\ outcome.kind = "return"
        /\ Status = 400
        /\ Has(Body, "error") /\ Has(Body, "query")
        /\ Body.query = calls[1].q
        /\ DOMAIN Body \cap {"latitude", "longitude",
                             "scaled_latitude", "scaled_longitude"} = {}

\* C21 witness: the request to the provider timed out and the /coordinates
\* request was answered with status 400 and the error record
C21_Witness ==
    /\ CoordinatesDone
    /\ net[calls[1].provider].status = "timeout"
    /\ AdapterRecord(1) = NoneDict
    /\ Status = 400
    /\ Has(Body, "query")

\* the value the request gives the parameter, '' when it gives none
Given(name) == Get(dict_of(arg.parameters), name, <<>>)

\* the record get_coordinates returned for the i-th adapter invocation
CoordinatesRecord(i) == coordinates_of(calls[i].provider, calls[i].q,
                                       geocode(calls[i].provider, calls[i].q, net)).value

\* C22: calculate_distance geocodes city1 and then city2, one adapter
\* invocation each and in that order, whatever the first result is; when the
\* first record contains 'error' it is returned as it is (also when both
\* cities failed), otherwise when the second contains 'error' the second is
\* returned.
C22_BothCitiesGeocodedInOrder ==
    (HandlerDone /\ WellFormed /\ arg.apiPath = "/distance") =>
        /\ Len(calls) = 2
        /\ calls[1].q = Given("city1")
        /\ calls[2].q = Given("city2")
        /\ Len(http) = 2
        /\ http[1].q = Given("city1")
        /\ http[2].q = Given("city2")
        /\ Has(CoordinatesRecord(1), "error") => Body = CoordinatesRecord(1)
        /\ (~Has(CoordinatesRecord(1), "error") /\ Has(CoordinatesRecord(2), "error"))
              => Body = CoordinatesRecord(2)

\* C22 witness: the provider knew neither city; the second city was looked up
\* all the same and the first city's record was returned
C22_Witness ==
    /\ HandlerDone /\ WellFormed
    /\ arg.apiPath = "/distance"
    /\ Len(calls) = 2
    /\ calls[1].q = <<"London">> /\ calls[2].q = <<"Paris">>
    /\ NotFound(1) /\ NotFound(2)
    /\ http[2].q = <<"Paris">>
    /\ Body.city = <<"London">>

\* the record holds both keys
HasBoth(record, k1, k2) == Has(record, k1) /\ Has(record, k2)

\* C23: a record get_coordinates returned contains scaled_latitude and
\* scaled_longitude if and only if it contains latitude and longitude, and it
\* contains latitude and longitude whenever it does not contain 'error'; so
\* when both records of a two-city lookup are without 'error', no read of
\* latitude, longitude, scaled_latitude or scaled_longitude fails: the
\* request is answered with the result, or with status 500 for an exception
\* that is no KeyError.
C23_ScaledIffCoordinates ==
    (HandlerDone /\ WellFormed /\ arg.apiPath \in {"/coordinates", "/distance"}) =>
        /\ \A i \in 1..Len(calls) :
              /\ HasBoth(CoordinatesRecord(i), "scaled_latitude", "scaled_longitude")
                    <=> HasBoth(CoordinatesRecord(i), "latitude", "longitude")
              /\ ~Has(CoordinatesRecord(i), "error")
                    => HasBoth(CoordinatesRecord(i), "latitude", "longitude")
        /\ arg.apiPath = "/coordinates" => Body = CoordinatesRecord(1)
        /\ (arg.apiPath = "/distance"
               /\ \A i \in 1..Len(calls) : ~Has(CoordinatesRecord(i), "error")) =>
              \/ Status = 200 /\ Has(Body, "distance_km")
              \/ Status = 500 /\ Body.error # "KeyError"

\* C23 witness: both records of a two-city lookup were without 'error' and
\* the result holds the coordinates and scaled coordinates read from them
C23_Witness ==
    /\ BothGeocoded
    /\ Status = 200
    /\ ~Has(CoordinatesRecord(1), "error") /\ ~Has(CoordinatesRecord(2), "error")
    /\ Body.city1.scaled_latitude = CoordinatesRecord(1).scaled_latitude
    /\ Body.city2.longitude = CoordinatesRecord(2).longitude

-----------------------------------------------------------------------------
(* Properties of the graph operations *)

\* C24: when the graph query of get_nearest_graph_vertices raises, the
\* function returns a record whose 'error' is 'Failed to query graph
\* database: ...' and raises nothing, so the /nearest-vertices request is
\* answered with status 400 and that error in the body.
C24_GraphFailureGives400 ==
    (HandlerDone /\ WellFormed /\ arg.apiPath = "/nearest-vertices"
       /\ ~NotANumber("limit") /\ graph \in {"connect_fail", "query_fail"}) =>
        /\ calls = <<GraphCall("find_nearest_vertices")>>
        /\ Status = 400
        /\ Has(Body, "error")
        /\ Body.error[1] = "Failed to query graph database: "

-----------------------------------------------------------------------------
(* Properties of NeptuneConnection *)

\* a method call, or a with statement, starts and ends in this step
MethodCall(name) == pc = "idle" /\ pc' = "done" /\ op' = name

\* the sessions that were created and not closed
Open(created) == {i \in DOMAIN created : created[i] = "open"}

\* C25: a NeptuneConnection has its session set only after a successful
\* connect(): when connect() fails with ConnectionError, directly, through
\* execute_query() or on entry of a with statement, the object is left
\* without session and no session that the call created stays open.
C25_FailedConnectLeavesDisconnected ==
    [][((MethodCall("connect") \/ MethodCall("execute_query") \/ MethodCall("with"))
          /\ outcome'.kind = "raise" /\ outcome'.exc = "ConnectionError") =>
         /\ conn'._session = None
         /\ Open(sessions') = Open(sessions)]_vars

\* the test queries among the queries posted
TestQueries(posted) == {k \in DOMAIN posted : posted[k].q = TestQuery}

\* C26: over every sequence of connect(), execute_query() and close() calls,
\* close() returns with the session and auth cleared, also when closing the
\* session raised; connect() on an object with a session returns without
\* posting a query or changing the object; execute_query() on an object
\* without session enters connect() first and posts its query only after the
\* test query; and every call ends after at most five method entries, with at
\* most one test query for each session created and exactly one test query
\* in a connect() that returned after creating a session.
C26_ConnectionLifecycle ==
    /\ [](pc = "done" /\ op = "close" =>
            /\ outcome.kind = "return"
            /\ conn._session = None
            /\ conn._auth = None)
    /\ [](pc = "done" => Len(calls) < RecursionLimit)
    /\ [][(MethodCall("connect") /\ conn._session # None) =>
            /\ outcome'.kind = "return"
            /\ http' = <<>>
            /\ conn' = conn
            /\ sessions' = sessions]_vars
    /\ [][(MethodCall("execute_query") /\ conn._session = None) =>
            /\ Len(calls') >= 2
            /\ calls'[1] = "execute_query" /\ calls'[2] = "connect"
            /\ \A k \in DOMAIN http' :
                  http'[k].q = arg' => (k = 2 /\ http'[1].q = TestQuery)]_vars
    /\ [][(pc = "idle" /\ pc' = "done") =>
            /\ Cardinality(TestQueries(http')) <= Len(sessions') - Len(sessions)
            /\ (op' = "connect" /\ conn._session = None /\ outcome'.kind = "return") =>
                  /\ Cardinality(TestQueries(http')) = 1
                  /\ Len(sessions') = Len(sessions) + 1]_vars

\* C26 witness: execute_query() on an object without session entered
\* connect(), whose test query went through execute_query(), and then posted
\* its own query
C26_Witness ==
    /\ pc = "done"
    /\ op = "execute_query"
    /\ outcome.kind = "return"
    /\ calls = <<"execute_query", "connect", "execute_query">>
    /\ Len(http) = 2
    /\ http[1].q = TestQuery
    /\ http[2].q = arg
    /\ conn._session # None

====
